---- MODULE Spec2Model ----
(***************************************************************************)
(* Model of scripts/start.py: the stream supervisor (StreamManager) and    *)
(* its per-stream process handles (FFmpegProcess).                         *)
(*                                                                         *)
(* The main control flow (main -> StreamManager.__init__ ->                *)
(* start_all_streams -> monitor_streams) is a single thread whose position *)
(* is pc.  The signal handler runs on that same thread between two         *)
(* bytecodes: while it runs (hpc = "cleanup") the main flow is suspended   *)
(* at pc.  Child processes are the environment: a running child may exit   *)
(* at any time, a spawn may fail, and signalling a child may fail.         *)
(* A second signal arriving while the handler is already running is not    *)
(* modelled.                                                               *)
(***************************************************************************)
EXTENDS Integers, Sequences, FiniteSets, TLC

\* ------------------------------------------------------------------ bounds
\* Longest declaration list (config['streams']) explored.
MaxStreams == 2
\* The give-up log counter of a handle saturates at this value.
MaxGiveUpLog == 2
\* Longest options mapping explored by the command builder.
MaxOptions == 2

\* --------------------------------------------------------- program constants
\* FFmpegProcess.max_restarts
max_restarts == 5

\* ------------------------------------------------------------ declarations
\* Marker of a key that is absent from a stream's mapping.
Missing == "<missing>"

\* StreamType: the members of the enumeration.
StreamType == {"file", "rtsp", "rtmp", "hls", "udp"}

\* The types _build_command has an argument template for.
Templated == {"file", "rtsp", "rtmp"}

\* One entry of config['streams']: its name and type keys (Missing when the
\* key is absent) and whether the input and output_path keys are present.
\* The entries of the supervisor runs all have the same input, output_path
\* and no options; BuildDecls below varies them.
Decl(n, t, io) ==
    [name |-> n, type |-> t, io |-> io, input |-> "/media/loop.mp4",
     output_path |-> "cam1/stream", options |-> << >>]

\* The stream entries the configurations are built from.
Decls ==
    { Decl("a", "file", TRUE),        \* well formed
      Decl("b", "rtsp", TRUE),        \* well formed
      Decl("a", "hls", TRUE),         \* enum member without a template
      Decl("b", "bogus", TRUE),       \* not a member of StreamType
      Decl(Missing, "file", TRUE),    \* no name key
      Decl("a", "file", FALSE) }      \* no input / output_path key

\* All declaration lists of length 0..MaxStreams.
DeclLists == UNION { [1..n -> Decls] : n \in 0..MaxStreams }

\* What yaml.safe_load of the configuration file yields.
DocKinds == {"unloadable", "not_mapping", "no_streams", "streams_null", "ok"}

\* Handles are identified by the index of the declaration they were built from.
H == 1..MaxStreams

VARIABLES
    doc,            \* kind of the configuration document
    decls,          \* config['streams'] when doc = "ok"
    pc,             \* position of the main control flow
    si,             \* start_all_streams: index of the current declaration
    mi,             \* monitor_streams: index into streams.items()
    cur,            \* handle whose start() is executing (0: none)
    caller,         \* who called start(): "sas", "mon" or "none"
    process,        \* handle -> "none" | "running" | "exited" (self.process)
    unrec,          \* handle -> a child was spawned and is not yet stored
    restart_count,  \* handle -> self.restart_count
    attempts,       \* handle -> number of start() calls made by the monitor
    gaveUp,         \* handle -> give-up error lines logged (saturating)
    streams,        \* self.streams, in insertion order: <<[name, h], ...>>
    handlers,       \* the signal handlers are installed
    hpc,            \* "idle" | "cleanup": the signal handler's position
    ci,             \* cleanup: index into streams.values()
    stopCalled,     \* handles stop() was called on by the running/last cleanup
    initFail,       \* handles whose first start() failed to spawn
    spawned,        \* some child process has been spawned
    command,        \* start(): the local variable command (<< >>: not built)
    orphans,        \* handles with a running child that nothing refers to
    exitStatus,     \* process exit status, -1 while running
    fatal           \* why the process exited / what main logged

vars == << doc, decls, pc, si, mi, cur, caller, process, unrec, restart_count,
           attempts, gaveUp, streams, handlers, hpc, ci, stopCalled, initFail,
           spawned, command, orphans, exitStatus, fatal >>

hvars == << process, unrec, restart_count, attempts, gaveUp, orphans >>
flow == << pc, si, mi, cur, caller >>
sig == << hpc, ci, stopCalled >>
cfgv == << doc, decls >>

\* FFmpegProcess.__init__ for every handle, StreamManager.__init__ before
\* _load_config, and the configuration the file holds.
Init ==
    /\ doc \in DocKinds
    /\ decls \in (IF doc = "ok" THEN DeclLists ELSE { << >> })
    /\ pc = "load"
    /\ si = 1 /\ mi = 1 /\ cur = 0 /\ caller = "none"
    /\ process = [h \in H |-> "none"]
    /\ unrec = [h \in H |-> FALSE]
    /\ restart_count = [h \in H |-> 0]
    /\ attempts = [h \in H |-> 0]
    /\ gaveUp = [h \in H |-> 0]
    /\ streams = << >>
    /\ handlers = FALSE
    /\ hpc = "idle" /\ ci = 1 /\ stopCalled = {}
    /\ initFail = {}
    /\ spawned = FALSE
    /\ command = << >>
    /\ orphans = {}
    /\ exitStatus = -1
    /\ fatal = "none"

\* ------------------------------------------------------------ _load_config
\* open() and yaml.safe_load succeed.
Loadable(d) == d # "unloadable"
\* isinstance(config, dict)
IsMapping(d) == d \in {"no_streams", "streams_null", "ok"}
\* 'streams' in config
HasStreams(d) == d \in {"streams_null", "ok"}

\* The validation with its two tests joined by "and".
InvalidConfig_and(d) == ~IsMapping(d) /\ ~HasStreams(d)

\* The validation of line 229 rejects the document.
InvalidConfig(d) == ~IsMapping(d) \/ ~HasStreams(d)

\* sys.exit(status), or main's handler logging `why` and calling sys.exit(1).
Exit(status, why) ==
    /\ pc' = "exited"
    /\ exitStatus' = status
    /\ fatal' = why

\* StreamManager._load_config: returns the document, or logs and exits 1.
LoadConfig ==
    /\ pc = "load"
    /\ IF ~Loadable(doc) \/ InvalidConfig(doc)
         THEN Exit(1, "config")
         ELSE pc' = "setup" /\ UNCHANGED << exitStatus, fatal >>
    /\ UNCHANGED << cfgv, si, mi, cur, caller, hvars, streams, handlers, sig,
                    initFail, spawned, command >>

\* StreamManager._setup_signal_handlers, then main calls start_all_streams.
SetupHandlers ==
    /\ pc = "setup"
    /\ handlers' = TRUE
    /\ pc' = "sas_loop"
    /\ UNCHANGED << cfgv, si, mi, cur, caller, hvars, streams, sig, initFail,
                    spawned, command, exitStatus, fatal >>

\* ------------------------------------------------------- start_all_streams
\* The main flow runs only while the signal handler does not.
Running == hpc = "idle" /\ pc # "exited"

\* Line 255: evaluate self.config['streams'] and advance the iteration; when
\* the list is exhausted start_all_streams returns and main calls
\* monitor_streams.  A document without a list here raises outside any try
\* of start_all_streams, so main's handler exits 1.
SasLoop ==
    /\ Running /\ pc = "sas_loop"
    /\ IF ~HasStreams(doc)
         THEN Exit(1, "KeyError:streams") /\ UNCHANGED mi
         ELSE IF doc = "streams_null"
         THEN Exit(1, "TypeError") /\ UNCHANGED mi
         ELSE IF si <= Len(decls)
         THEN pc' = "sas_construct" /\ UNCHANGED << mi, exitStatus, fatal >>
         ELSE pc' = "mon_check" /\ mi' = 1 /\ UNCHANGED << exitStatus, fatal >>
    /\ UNCHANGED << cfgv, si, cur, caller, hvars, streams, handlers, sig,
                    initFail, spawned, command >>

\* Lines 257-263 raise for this declaration: a key is absent, or the type
\* names no member of StreamType.
DeclError(d) ==
    \/ d.name = Missing
    \/ d.type = Missing
    \/ d.type \notin StreamType
    \/ ~d.io

\* Lines 257-265: build the StreamConfig and the FFmpegProcess and call its
\* start(); an exception goes to the handler of line 267.
SasConstruct ==
    /\ Running /\ pc = "sas_construct"
    /\ IF DeclError(decls[si])
         THEN pc' = "sas_except" /\ UNCHANGED << cur, caller >>
         ELSE pc' = "start_build" /\ cur' = si /\ caller' = "sas"
    /\ UNCHANGED << cfgv, si, mi, hvars, streams, handlers, sig, initFail,
                    spawned, command, exitStatus, fatal >>

\* Line 268: the log line reads stream_config['name'], which raises KeyError
\* inside the except block when the name key is absent; that exception
\* leaves start_all_streams and main's handler exits 1.
SasExcept ==
    /\ Running /\ pc = "sas_except"
    /\ IF decls[si].name = Missing
         THEN Exit(1, "KeyError:name") /\ UNCHANGED si
         ELSE pc' = "sas_loop" /\ si' = si + 1 /\ UNCHANGED << exitStatus, fatal >>
    /\ UNCHANGED << cfgv, mi, cur, caller, hvars, streams, handlers, sig,
                    initFail, spawned, command >>

\* dict assignment self.streams[name] = h: a present key keeps its position.
Put(m, n, h) ==
    IF \E k \in 1..Len(m) : m[k].name = n
      THEN [k \in 1..Len(m) |-> IF m[k].name = n THEN [name |-> n, h |-> h] ELSE m[k]]
      ELSE Append(m, [name |-> n, h |-> h])

\* Line 266: start() returned True, register the handle under its name.
SasRegister ==
    /\ Running /\ pc = "sas_register"
    /\ streams' = Put(streams, decls[si].name, si)
    /\ pc' = "sas_loop" /\ si' = si + 1
    /\ cur' = 0 /\ caller' = "none"
    /\ UNCHANGED << cfgv, mi, hvars, handlers, sig, initFail, spawned, command,
                    exitStatus, fatal >>

\* ----------------------------------------------------- FFmpegProcess.start
\* start() returns ok to its caller: start_all_streams registers the handle
\* on True and moves to the next declaration on False; monitor_streams
\* discards the result and moves to the next tracked stream.
ReturnFromStart(ok) ==
    /\ command' = << >>
    /\ IF caller = "sas"
         THEN IF ok
                THEN pc' = "sas_register" /\ UNCHANGED << si, mi, cur, caller >>
                ELSE pc' = "sas_loop" /\ si' = si + 1 /\ cur' = 0
                     /\ caller' = "none" /\ UNCHANGED mi
         ELSE pc' = "mon_check" /\ mi' = mi + 1 /\ cur' = 0 /\ caller' = "none"
              /\ UNCHANGED si

\* ------------------------------------------- FFmpegProcess._build_command
\* RTSP_SERVER of main (its default).
RTSP_SERVER == "rtsp://mediamtx:8554"

\* Scalars of the YAML options mapping: integers and strings.
YInt(i) == [int |-> i]
YStr(x) == [str |-> x]

\* str(value)
Str(v) == IF "int" \in DOMAIN v THEN ToString(v.int) ELSE v.str

\* f"-{key}" for the option keys explored.
Dash(k) ==
    CASE k = "r" -> "-r"
      [] k = "an" -> "-an"
      [] k = "f" -> "-f"

\* f"{rtsp_server}/{output_path}" for the output paths explored.
Url(server, path) ==
    CASE server = RTSP_SERVER /\ path = "cam1/stream" -> "rtsp://mediamtx:8554/cam1/stream"
      [] server = RTSP_SERVER /\ path = "live" -> "rtsp://mediamtx:8554/live"

\* What _build_command yields when it raises ValueError.
ValueError == << "ValueError: Unsupported stream type" >>

\* The template choice with a final else that relays (no ValueError).
Template_default(d) ==
    IF d.type = "file" THEN
        << "-stream_loop", "-1", "-i", d.input, "-c:v", "libx264",
           "-preset", "veryfast", "-c:a", "aac", "-b:v", "2M",
           "-bufsize", "4M", "-maxrate", "2.5M", "-g", "50",
           "-keyint_min", "25" >>
    ELSE IF d.type = "rtsp" THEN
        << "-rtsp_transport", "tcp", "-i", d.input, "-c", "copy",
           "-f", "rtsp", "-rtsp_transport", "tcp" >>
    ELSE << "-i", d.input, "-c", "copy" >>

\* Lines 105-132: the arguments a type adds to ['ffmpeg', '-re'].
Template(d) ==
    IF d.type = "file" THEN
        << "-stream_loop", "-1", "-i", d.input, "-c:v", "libx264",
           "-preset", "veryfast", "-c:a", "aac", "-b:v", "2M",
           "-bufsize", "4M", "-maxrate", "2.5M", "-g", "50",
           "-keyint_min", "25" >>
    ELSE IF d.type = "rtsp" THEN
        << "-rtsp_transport", "tcp", "-i", d.input, "-c", "copy",
           "-f", "rtsp", "-rtsp_transport", "tcp" >>
    ELSE IF d.type = "rtmp" THEN
        << "-i", d.input, "-c", "copy" >>
    ELSE ValueError

\* Lines 135-137: the options loop, one "-key value" pair per entry in the
\* mapping's iteration order (an absent or empty mapping adds nothing).
RECURSIVE OptionArgs(_)
OptionArgs(opts) ==
    IF opts = << >> THEN << >>
    ELSE << Dash(Head(opts).key), Str(Head(opts).value) >> \o OptionArgs(Tail(opts))

\* Lines 140-143: the output sink.
OutputArgs(d, server) == << "-f", "rtsp", Url(server, d.output_path) >>

\* The builder with the options appended after the output sink.
_build_command_opts_last(d, server) ==
    LET base_command == << "ffmpeg", "-re" >>
        t == Template(d)
    IN IF t = ValueError THEN ValueError
       ELSE base_command \o t \o OutputArgs(d, server) \o OptionArgs(d.options)

\* FFmpegProcess._build_command: the argument list, or ValueError.
_build_command(d, server) ==
    LET base_command == << "ffmpeg", "-re" >>
        t == Template(d)
    IN IF t = ValueError THEN ValueError
       ELSE base_command \o t \o OptionArgs(d.options) \o OutputArgs(d, server)

\* _build_command raises ValueError for a type without a template.
BuildRaises(d) == _build_command(d, RTSP_SERVER) = ValueError

\* Line 154: build the command; ValueError is caught at line 165 and start()
\* returns False.
StartBuild ==
    /\ Running /\ pc = "start_build"
    /\ IF BuildRaises(decls[cur])
         THEN ReturnFromStart(FALSE)
         ELSE /\ command' = _build_command(decls[cur], RTSP_SERVER)
              /\ pc' = "start_spawn" /\ UNCHANGED << si, mi, cur, caller >>
    /\ UNCHANGED << cfgv, hvars, streams, handlers, sig, initFail, spawned,
                    exitStatus, fatal >>

\* start() with `self.process = None` added to its except block.
StartSpawn_clears ==
    /\ Running /\ pc = "start_spawn"
    /\ \E ok \in BOOLEAN :
         IF ok
           THEN /\ unrec' = [unrec EXCEPT ![cur] = TRUE]
                /\ spawned' = TRUE
                /\ pc' = "start_assign"
                /\ UNCHANGED << si, mi, cur, caller, initFail, command, process >>
           ELSE /\ initFail' = IF caller = "sas" THEN initFail \cup {cur} ELSE initFail
                /\ process' = [process EXCEPT ![cur] = "none"]
                /\ ReturnFromStart(FALSE)
                /\ UNCHANGED << unrec, spawned >>
    /\ UNCHANGED << cfgv, restart_count, attempts, gaveUp, orphans,
                    streams, handlers, sig, exitStatus, fatal >>

\* Line 158, the call: subprocess.Popen either spawns a child or raises
\* OSError, which is caught at line 165 (start() returns False and
\* self.process keeps the value it had).
StartSpawn ==
    /\ Running /\ pc = "start_spawn"
    /\ \E ok \in BOOLEAN :
         IF ok
           THEN /\ unrec' = [unrec EXCEPT ![cur] = TRUE]
                /\ spawned' = TRUE
                /\ pc' = "start_assign"
                /\ UNCHANGED << si, mi, cur, caller, initFail, command >>
           ELSE /\ initFail' = IF caller = "sas" THEN initFail \cup {cur} ELSE initFail
                /\ ReturnFromStart(FALSE)
                /\ UNCHANGED << unrec, spawned >>
    /\ UNCHANGED << cfgv, process, restart_count, attempts, gaveUp, orphans,
                    streams, handlers, sig, exitStatus, fatal >>

\* Line 158, the store into self.process, and line 164: return True.  A
\* child the old value of self.process referred to, if it still runs, is no
\* longer referred to by anything.
StartAssign ==
    /\ Running /\ pc = "start_assign"
    /\ process' = [process EXCEPT ![cur] = "running"]
    /\ unrec' = [unrec EXCEPT ![cur] = FALSE]
    /\ orphans' = IF process[cur] = "running" THEN orphans \cup {cur} ELSE orphans
    /\ ReturnFromStart(TRUE)
    /\ UNCHANGED << cfgv, restart_count, attempts, gaveUp, streams, handlers,
                    sig, initFail, spawned, exitStatus, fatal >>

\* -------------------------------------------------------- monitor_streams
\* is_alive with the poll() test inverted.
is_alive_inverted(h) == process[h] # "none" /\ process[h] # "running"

\* FFmpegProcess.is_alive
is_alive(h) == process[h] # "none" /\ process[h] = "running"

\* The restart test with <= for <.
CanRestart_le(h) == restart_count[h] <= max_restarts

\* Line 276: process.restart_count < process.max_restarts
CanRestart(h) == restart_count[h] < max_restarts

\* The counter update left out.
NotIncremented(c) == c

\* The counter update with -= for +=.
Decremented(c) == c - 1

\* Line 277: process.restart_count += 1
Incremented(c) == c + 1

\* Lines 273-280 for one item of self.streams.items(); after the last item
\* the loop goes to sleep.
MonCheck ==
    /\ Running /\ pc = "mon_check"
    /\ IF mi > Len(streams)
         THEN pc' = "mon_sleep" /\ UNCHANGED << mi, cur, caller, hvars >>
         ELSE LET h == streams[mi].h IN
              IF is_alive(h)
                THEN mi' = mi + 1 /\ UNCHANGED << pc, cur, caller, hvars >>
                ELSE IF CanRestart(h)
                  THEN /\ restart_count' = [restart_count EXCEPT ![h] = Incremented(@)]
                       /\ attempts' = [attempts EXCEPT ![h] = @ + 1]
                       /\ cur' = h /\ caller' = "mon" /\ pc' = "start_build"
                       /\ UNCHANGED << mi, process, unrec, gaveUp, orphans >>
                  ELSE /\ gaveUp' = [gaveUp EXCEPT ![h] =
                                        IF @ < MaxGiveUpLog THEN @ + 1 ELSE @]
                       /\ mi' = mi + 1
                       /\ UNCHANGED << pc, cur, caller, process, unrec,
                                       restart_count, attempts, orphans >>
    /\ UNCHANGED << cfgv, si, streams, handlers, sig, initFail, spawned, command,
                    exitStatus, fatal >>

\* The monitor with one pass instead of `while True`: it returns after the
\* sleep, main falls off its end and the interpreter exits with status 0.
MonSleep_once ==
    /\ Running /\ pc = "mon_sleep"
    /\ Exit(0, "returned")
    /\ UNCHANGED << cfgv, si, mi, cur, caller, hvars, streams, handlers, sig,
                    initFail, spawned, command >>

\* Line 281: time.sleep(5), then the next pass of the while loop.
MonSleep ==
    /\ Running /\ pc = "mon_sleep"
    /\ pc' = "mon_check" /\ mi' = 1
    /\ UNCHANGED << cfgv, si, cur, caller, hvars, streams, handlers, sig,
                    initFail, spawned, command, exitStatus, fatal >>

\* ------------------------------------------------------------ environment
\* A child exit that also resets the handle's self.process to None.
ChildExit_clears(h) ==
    /\ pc # "exited"
    /\ process[h] = "running"
    /\ process' = [process EXCEPT ![h] = "none"]
    /\ UNCHANGED << cfgv, flow, unrec, restart_count, attempts, gaveUp,
                    streams, handlers, sig, initFail, spawned, command,
                    orphans, exitStatus, fatal >>

\* The child process of handle h exits on its own.
ChildExit(h) ==
    /\ pc # "exited"
    /\ process[h] = "running"
    /\ process' = [process EXCEPT ![h] = "exited"]
    /\ UNCHANGED << cfgv, flow, unrec, restart_count, attempts, gaveUp,
                    streams, handlers, sig, initFail, spawned, command,
                    orphans, exitStatus,
                    fatal >>

\* ------------------------------------------------------ FFmpegProcess.stop
\* How a call of stop() on handle h can go:
\*   "noop"     self.process is None, nothing is done;
\*   "reaped"   the child had already exited: terminate() and wait() return
\*              at once;
\*   "graceful" the child exits within the 5 s of wait(timeout=5);
\*   "killed"   wait() times out and kill() is sent;
\*   "raise"    terminate() raises OSError (the child cannot be signalled).
StopOutcomes(h) ==
    IF process[h] = "none" THEN {"noop"}
    ELSE IF process[h] = "exited" THEN {"reaped"}
    ELSE {"graceful", "killed", "raise"}

\* self.process after stop() went the way o: line 178 is reached unless
\* terminate() raised.
stop(h, o) ==
    IF o = "raise" THEN process[h] ELSE "none"

\* --------------------------------------------------------- signal handling
\* SIGINT or SIGTERM is delivered: _signal_handler starts on the main
\* thread, which stays suspended at pc, and calls cleanup().
Signal ==
    /\ handlers /\ hpc = "idle" /\ pc # "exited"
    /\ hpc' = "cleanup" /\ ci' = 1 /\ stopCalled' = {}
    /\ UNCHANGED << cfgv, flow, hvars, streams, handlers, initFail, spawned, command,
                    exitStatus, fatal >>

\* An exception raised inside the signal handler surfaces in the main flow
\* at the interrupted position: inside start()'s try it is caught at line
\* 165 and start() returns False; inside the try of start_all_streams it is
\* caught at line 267; anywhere else it reaches main's handler (line 304),
\* which exits 1.  When it interrupts start() between Popen's return and
\* the store into self.process, the new child is never stored.
HandlerRaises ==
    /\ IF pc \in {"start_build", "start_spawn", "start_assign"}
         THEN ReturnFromStart(FALSE) /\ UNCHANGED << exitStatus, fatal >>
         ELSE IF pc \in {"sas_construct", "sas_register"}
         THEN pc' = "sas_except" /\ cur' = 0 /\ caller' = "none"
              /\ UNCHANGED << si, mi, command, exitStatus, fatal >>
         ELSE Exit(1, "OSError:stop") /\ UNCHANGED << si, mi, cur, caller, command >>
    /\ IF pc = "start_assign"
         THEN /\ unrec' = [unrec EXCEPT ![cur] = FALSE]
              /\ orphans' = orphans \cup {cur}
         ELSE UNCHANGED << unrec, orphans >>

\* cleanup(), one iteration of line 286-287: stop() on the next handle of
\* self.streams.values().  Nothing catches an exception of stop() here.
CleanupStop ==
    /\ hpc = "cleanup" /\ ci <= Len(streams)
    /\ LET h == streams[ci].h IN
       \E o \in StopOutcomes(h) :
         /\ stopCalled' = stopCalled \cup {h}
         /\ process' = [process EXCEPT ![h] = stop(h, o)]
         /\ IF o = "raise"
              THEN hpc' = "idle" /\ ci' = 1 /\ HandlerRaises
              ELSE ci' = ci + 1
                   /\ UNCHANGED << hpc, flow, command, unrec, orphans,
                                   exitStatus, fatal >>
    /\ UNCHANGED << cfgv, restart_count, attempts, gaveUp, streams, handlers,
                    initFail, spawned >>

\* cleanup() has returned: line 251, sys.exit(0).  SystemExit is not an
\* Exception, so no handler of the main flow catches it.
CleanupDone ==
    /\ hpc = "cleanup" /\ ci > Len(streams)
    /\ hpc' = "idle"
    /\ Exit(0, "signal")
    /\ UNCHANGED << cfgv, si, mi, cur, caller, hvars, streams, handlers, ci,
                    stopCalled, initFail, spawned, command >>

\* ----------------------------------------------------------- specification
Next ==
    \/ LoadConfig
    \/ SetupHandlers
    \/ SasLoop
    \/ SasConstruct
    \/ SasExcept
    \/ SasRegister
    \/ StartBuild
    \/ StartSpawn
    \/ StartAssign
    \/ MonCheck
    \/ MonSleep
    \/ \E h \in H : ChildExit(h)
    \/ Signal
    \/ CleanupStop
    \/ CleanupDone

Spec == Init /\ [][Next]_vars

\* ------------------------------------------------------------------ helpers
\* Handle h is a value of self.streams.
Tracked(h) == \E k \in 1..Len(streams) : streams[k].h = h

\* start_all_streams has returned: the main flow is inside monitor_streams.
InMonitor == pc \in {"mon_check", "mon_sleep"} \/ (caller = "mon" /\ pc # "exited")

\* =================================================================== claims

\* C1: the monitor makes at most max_restarts restart attempts on a handle,
\* and once a handle's restart count has reached max_restarts no later step
\* calls start() on it.
C1_RestartsBounded ==
    /\ [](\A h \in H : attempts[h] <= max_restarts)
    /\ [][\A h \in H : restart_count[h] >= max_restarts
                          => attempts'[h] = attempts[h]]_vars

\* C1 witness: a tracked handle used up its max_restarts attempts, is dead,
\* and the monitor has passed over it on two further ticks without a start.
C1_Witness ==
    \E h \in H : /\ Tracked(h)
                 /\ restart_count[h] = max_restarts
                 /\ attempts[h] = max_restarts
                 /\ ~is_alive(h)
                 /\ gaveUp[h] >= 2

\* C2: when the process exits after a shutdown signal, cleanup() has called
\* stop() on every handle of the tracking map, whether or not a stop()
\* raised.
C2_AllStoppedBeforeExit ==
    (pc = "exited" /\ fatal \in {"signal", "OSError:stop"})
        => \A k \in 1..Len(streams) : streams[k].h \in stopCalled

\* C3: once start_all_streams has returned, every handle whose first start()
\* failed to spawn is in the tracking map, where the monitor restarts it.
C3_FailedStartIsCandidate ==
    InMonitor => \A h \in initFail : Tracked(h)

\* C4: every handle's restart_count stays within 0..max_restarts and no step
\* decreases it.
C4_CountBoundedMonotone ==
    /\ [](\A h \in H : 0 <= restart_count[h] /\ restart_count[h] <= max_restarts)
    /\ [][\A h \in H : restart_count'[h] >= restart_count[h]]_vars

\* C4 witness: a handle that was restarted at least once has been stopped by
\* cleanup() and keeps its count.
C4_Witness ==
    \E h \in H : /\ restart_count[h] >= 1
                 /\ h \in stopCalled
                 /\ process[h] = "none"

\* C5: no step taken while a handle's child is running changes the handle's
\* restart_count or calls start() on it; in particular the monitor's poll of
\* an alive stream does neither.
C5_AliveNotRestarted ==
    [][\A h \in H : process[h] = "running"
          => /\ restart_count'[h] = restart_count[h]
             /\ attempts'[h] = attempts[h]]_vars

\* C5 witness: the monitor is about to poll a stream that failed fewer than
\* max_restarts times, was restarted and is alive.
C5_Witness ==
    /\ Running /\ pc = "mon_check" /\ mi <= Len(streams)
    /\ LET h == streams[mi].h IN
         /\ process[h] = "running"
         /\ restart_count[h] >= 1
         /\ restart_count[h] < max_restarts

\* C6: a declaration error never ends the process: with a loaded document
\* that holds a streams list, the process exits only through the signal
\* handler.
C6_DeclErrorSkipped ==
    (doc = "ok" /\ pc = "exited" /\ \E i \in 1..Len(decls) : DeclError(decls[i]))
        => fatal \in {"signal", "OSError:stop"}

\* C7: after every call of stop() the handle holds no process reference.
C7_StopClearsReference ==
    [][(hpc = "cleanup" /\ ci <= Len(streams) /\ stopCalled' # stopCalled)
          => process'[streams[ci].h] = "none"]_vars

\* C8: after a start() that failed in building the command or in spawning,
\* the handle holds no process reference.
C8_FailedStartNoReference ==
    [][(Running /\ hpc' = "idle" /\ pc \in {"start_build", "start_spawn"}
          /\ pc' \notin {"start_build", "start_spawn", "start_assign"})
          => process'[cur] = "none"]_vars

\* C8, amended: a start() that fails in building the command or in spawning
\* returns to its caller without raising and without ending the program, and
\* leaves self.process as it was before the call: None on a first start, the
\* exited previous child on a restart, never a running child.
C8_FailedStartKeepsReference ==
    [][(Running /\ hpc' = "idle" /\ pc \in {"start_build", "start_spawn"}
          /\ pc' \notin {"start_build", "start_spawn", "start_assign"})
          => /\ process'[cur] = process[cur]
             /\ process'[cur] # "running"
             /\ caller = "sas" => (process'[cur] = "none" /\ pc' = "sas_loop")
             /\ caller = "mon" => pc' = "mon_check"]_vars

\* C8 witness: start() is spawning for a restart of a handle whose
\* self.process still refers to the exited previous child.
C8_Witness ==
    /\ pc = "start_spawn" /\ caller = "mon"
    /\ process[cur] = "exited"
    /\ hpc = "idle"

\* C9: with a document that cannot be loaded, is no mapping or has no
\* streams key, the process goes from _load_config straight to exit status
\* 1: the handlers are never installed, start_all_streams is never entered,
\* no child is ever spawned and the tracking map stays empty.
C9_BadConfigExits ==
    (~Loadable(doc) \/ ~IsMapping(doc) \/ ~HasStreams(doc))
        => /\ pc \in {"load", "exited"}
           /\ pc = "exited" => (exitStatus = 1 /\ fatal = "config")
           /\ ~handlers
           /\ ~spawned
           /\ streams = << >>

\* C9 witness: a mapping without the streams key has made the process exit.
C9_Witness ==
    doc = "no_streams" /\ pc = "exited" /\ exitStatus = 1

\* C10: a shutdown that the signal handler began ends with exit status 0.
C10_SignalExitsZero ==
    (pc = "exited" /\ fatal \in {"signal", "OSError:stop"}) => exitStatus = 0

\* C11: over the whole run the give-up error line of a handle is logged at
\* most once.
C11_ExhaustionLoggedOnce ==
    \A h \in H : gaveUp[h] <= 1

\* ------------------------------------------------------------- fair runs
\* The steps of the main thread outside the signal handler.
MainFlow ==
    \/ LoadConfig \/ SetupHandlers
    \/ SasLoop \/ SasConstruct \/ SasExcept \/ SasRegister
    \/ StartBuild \/ StartSpawn \/ StartAssign
    \/ MonCheck \/ MonSleep

\* The interpreter keeps executing: the main thread takes its next step, and
\* a running signal handler takes its next step (every stop() returns or
\* raises within its grace period).  Signals and child exits are up to the
\* environment.
FairSpec ==
    /\ Init /\ [][Next]_vars
    /\ WF_vars(MainFlow)
    /\ WF_vars(CleanupStop)
    /\ WF_vars(CleanupDone)

\* C12: once the signal handler has started, the process eventually exits.
C12_SignalLeadsToExit ==
    (hpc = "cleanup") ~> (pc = "exited")

\* ------------------------------------------------- start() on one stream
\* Option keys, option values, inputs and output paths explored.
OptKeys == {"r", "an", "f"}
OptValues == {YInt(30), YStr("tcp")}
Inputs == {"/media/loop.mp4", "rtsp://cam/1"}
Paths == {"cam1/stream", "live"}

\* The options mappings: up to MaxOptions entries with distinct keys, in
\* iteration order.
OptionLists ==
    UNION { { o \in [1..n -> [key : OptKeys, value : OptValues]] :
                \A i, j \in 1..n : i # j => o[i].key # o[j].key } : n \in 0..MaxOptions }

\* Well-formed stream entries of every type, input, output path and options.
BuildDecls ==
    { [name |-> "cam1", type |-> t, io |-> TRUE, input |-> i, output_path |-> p,
       options |-> o] : t \in StreamType, i \in Inputs, p \in Paths,
                        o \in OptionLists }

\* start_all_streams has built the FFmpegProcess of the only declaration and
\* calls its start().
BuildInit ==
    /\ doc = "ok"
    /\ decls \in { << d >> : d \in BuildDecls }
    /\ pc = "start_build"
    /\ si = 1 /\ mi = 1 /\ cur = 1 /\ caller = "sas"
    /\ process = [h \in H |-> "none"]
    /\ unrec = [h \in H |-> FALSE]
    /\ restart_count = [h \in H |-> 0]
    /\ attempts = [h \in H |-> 0]
    /\ gaveUp = [h \in H |-> 0]
    /\ streams = << >>
    /\ handlers = TRUE
    /\ hpc = "idle" /\ ci = 1 /\ stopCalled = {}
    /\ initFail = {}
    /\ spawned = FALSE
    /\ command = << >>
    /\ orphans = {}
    /\ exitStatus = -1
    /\ fatal = "none"

\* The steps of FFmpegProcess.start.
StartNext ==
    \/ StartBuild
    \/ StartSpawn
    \/ StartAssign

BuildSpec == BuildInit /\ [][StartNext]_vars

\* Number of arguments the template of a type adds.
TemplateLen(t) ==
    CASE t = "file" -> 20
      [] t = "rtsp" -> 10
      [] t = "rtmp" -> 4

\* C13: for a file, rtsp or rtmp stream the command is built (start() fails
\* only in spawning) and is ffmpeg -re and the type's template, then one "-key value" pair per
\* options entry in iteration order, then -f rtsp <server>/<output_path> as
\* the last three arguments.
C13_CommandShape ==
    LET d == decls[1]
        c == command
        k == Len(d.options)
        t == 2 + TemplateLen(d.type)
    IN d.type \in Templated =>
         /\ ~BuildRaises(d)
         /\ pc = "sas_loop" => 1 \in initFail
         /\ pc \in {"start_spawn", "start_assign"} =>
              /\ Len(c) = t + 2 * k + 3
              /\ SubSeq(c, 1, t) = << "ffmpeg", "-re" >> \o Template(d)
              /\ d.type = "file" =>
                   SubSeq(c, 3, 6) = << "-stream_loop", "-1", "-i", d.input >>
              /\ \A j \in 1..k :
                   /\ c[t + 2 * j - 1] = Dash(d.options[j].key)
                   /\ c[t + 2 * j] = Str(d.options[j].value)
              /\ c[Len(c) - 2] = "-f"
              /\ c[Len(c) - 1] = "rtsp"
              /\ c[Len(c)] = Url(RTSP_SERVER, d.output_path)

\* C13 witness: the command of an rtsp stream with two options, an integer
\* and a string value, has been built.
C13_Witness ==
    /\ pc = "start_spawn"
    /\ decls[1].type = "rtsp"
    /\ Len(decls[1].options) = 2
    /\ decls[1].options[1].value = YInt(30)
    /\ decls[1].options[2].value = YStr("tcp")
    /\ Len(command) = 19

\* C14: for an hls or udp stream _build_command raises ValueError: start()
\* returns False without a command, and no child is spawned or stored.
C14_UnsupportedTypeFails ==
    decls[1].type \in {"hls", "udp"} =>
        /\ BuildRaises(decls[1])
        /\ pc \in {"start_build", "sas_loop"}
        /\ command = << >>
        /\ ~spawned
        /\ process[1] = "none" /\ ~unrec[1]

\* C14 witness: start() of a udp stream has returned False.
C14_Witness ==
    decls[1].type = "udp" /\ pc = "sas_loop" /\ si = 2

\* C15: when the monitor polls a tracked stream that is not alive and has
\* restart_count < max_restarts, that step adds exactly 1 to restart_count
\* and calls start() on the handle once; the count always equals the number
\* of start() calls the monitor made, whatever their outcome.
C15_CountPerAttempt ==
    /\ [](\A h \in H : restart_count[h] = attempts[h])
    /\ [][(/\ Running /\ pc = "mon_check" /\ mi <= Len(streams)
           /\ process[streams[mi].h] # "running"
           /\ restart_count[streams[mi].h] < max_restarts
           /\ hpc' = "idle" /\ << pc, mi >>' # << pc, mi >>)
          => LET h == streams[mi].h IN
               /\ restart_count'[h] = restart_count[h] + 1
               /\ attempts'[h] = attempts[h] + 1
               /\ pc' = "start_build" /\ cur' = h /\ caller' = "mon"]_vars

\* C15 witness: the child of a running stream exited, and the monitor has
\* set the count to 1 and is inside start() for it.
C15_Witness ==
    /\ pc = "start_build" /\ caller = "mon"
    /\ process[cur] = "exited"
    /\ restart_count[cur] = 1
    /\ attempts[cur] = 1

\* C16: without a signal the monitoring loop has no exit.  No step taken
\* inside monitor_streams while no handler runs ends the program; a pass
\* goes over the tracked streams in order, a live or an exhausted stream
\* only moves the pass to the next stream, the end of a pass leads to the
\* sleep and the sleep to a new pass from the first stream, also when every
\* stream is exhausted or the map is empty.
C16_MonitorNeverReturns ==
    [][(InMonitor /\ hpc = "idle" /\ hpc' = "idle")
       => /\ pc' # "exited"
          /\ InMonitor'
          /\ (pc = "mon_sleep" /\ pc' # pc) => (pc' = "mon_check" /\ mi' = 1)
          /\ (pc = "mon_check" /\ << pc, mi >>' # << pc, mi >>)
                => IF mi > Len(streams) THEN pc' = "mon_sleep"
                   ELSE IF is_alive(streams[mi].h) \/ ~CanRestart(streams[mi].h)
                     THEN pc' = "mon_check" /\ mi' = mi + 1
                     ELSE pc' = "start_build" /\ cur' = streams[mi].h
          /\ (caller = "mon" /\ caller' = "none")
                => (pc' = "mon_check" /\ mi' = mi + 1)]_vars

\* C16 witness: two tracked streams, the monitor has given up on the first
\* and is restarting the second in a later step of the same loop.
C16_Witness ==
    /\ Len(streams) = 2
    /\ gaveUp[streams[1].h] >= 1
    /\ pc = "start_build" /\ caller = "mon" /\ cur = streams[2].h
    /\ hpc = "idle" /\ stopCalled = {}

C18_NoChildAfterSignalExit ==
    (pc = "exited" /\ fatal = "signal")
        => \A h \in H : /\ process[h] # "running"
                        /\ ~unrec[h]
                        /\ h \notin orphans

\* The children spawned by start() on handle h that may still run: the one
\* self.process refers to, one returned by Popen and not yet stored, and one
\* that was never stored or whose reference was overwritten.
Children(h) ==
    (IF process[h] = "running" THEN 1 ELSE 0)
      + (IF unrec[h] THEN 1 ELSE 0)
      + (IF h \in orphans THEN 1 ELSE 0)

\* C19: every handle has at most one running child at any time.
C19_AtMostOneChild ==
    \A h \in H : Children(h) <= 1

====
